---- MODULE Spec2Model ----
(***************************************************************************)
(* TwinCosmos: the FusionSimulator (plasma state updater), the             *)
(* DecisionEngine (rule-based selector with pattern learning) and the      *)
(* TwinCosmos driver that ticks them and logs decisions in memory.         *)
(*                                                                         *)
(* JavaScript numbers are IEEE doubles; they are modelled in fixed point,  *)
(* every quantity an integer count of a unit:                              *)
(*   temperature      1e3 K        (1e8 K  = 100000)                       *)
(*   density          1e16 m^-3    (1e20   = 10000)                        *)
(*   power            1e4 W        (1e6 W  = 100)                          *)
(*   time, deltaTime  0.1 s        (1.0 s  = 10)                           *)
(*   confinementTime  1e-3 s       (3.0 s  = 3000)                         *)
(*   stability, confidence, match score, barrier, thresholds  1e-3         *)
(*   gamma, magneticField  0.1                                             *)
(* A division rounds down where the double keeps a fraction.  The          *)
(* Date.now() timestamps of decisions and memory entries are left out.     *)
(***************************************************************************)
EXTENDS Integers, Sequences, FiniteSets, TLC

VARIABLES
  config,       \* TwinCosmos.config: memoryEnabled, fusionEnabled, decisionEnabled
  initialized,  \* TwinCosmos.state.initialized
  time,         \* TwinCosmos.state.time
  memory,       \* TwinCosmos.components.memory (its data Map), or Null
  fusion,       \* a FusionSimulator (TwinCosmos.components.fusion), or Null
  engine,       \* a DecisionEngine (TwinCosmos.components.decision), or Null
  lastCall,     \* the last call made and what it returned or threw
  ticks,        \* history variable: the calls of TwinCosmos.step that returned
  pushed,       \* history variable: every snapshot FusionSimulator.step pushed
  v5Trace,      \* history variable: decide's input and calculateDecision's result
  held,         \* what a caller keeps of a getState or getHistory result, or Null
  controlled    \* history variable: the controls applyControl was called with

vars == <<config, initialized, time, memory, fusion, engine, lastCall, ticks,
          pushed, v5Trace, held, controlled>>

Null == [absent |-> TRUE]

(***************************************************************************)
(* Bounds of the model.                                                    *)
(***************************************************************************)
MaxFusionSteps == 4
MaxLongRun == 1002
MaxDecisions == 3
MaxTicks == 3
MaxTemperature == 500000
MaxDensity == 40000

Min(a, b) == IF a < b THEN a ELSE b
Max(a, b) == IF a > b THEN a ELSE b
Abs(a) == IF a < 0 THEN 0 - a ELSE a

(***************************************************************************)
(* Math.exp, Math.log10 in fixed point.                                    *)
(***************************************************************************)
RECURSIVE ExpSeries(_, _, _, _)
\* sum of the Taylor terms x^k/k! from term k on, x >= 0, all in 1e-3
ExpSeries(x, k, term, acc) ==
  IF term = 0 \/ k > 30 THEN acc
  ELSE ExpSeries(x, k + 1, (term * x) \div (k * 1000), acc + term)

\* Math.exp(x/1000) * 1000
MathExp(x) ==
  IF x >= 0 THEN ExpSeries(x, 1, 1000, 0)
  ELSE 1000000 \div ExpSeries(0 - x, 1, 1000, 0)

RECURSIVE Log2Frac(_, _, _)
\* the fractional bits of log2(y/1000), 1000 <= y < 2000, by repeated squaring
Log2Frac(y, bits, acc) ==
  IF bits = 0 THEN acc
  ELSE LET sq == (y * y) \div 1000
       IN IF sq >= 2000 THEN Log2Frac(sq \div 2, bits - 1, 2 * acc + 1)
          ELSE Log2Frac(sq, bits - 1, 2 * acc)

RECURSIVE Log2Milli(_)
\* log2(y/1000) * 1024, y >= 1
Log2Milli(y) ==
  IF y >= 2000 THEN 1024 + Log2Milli(y \div 2)
  ELSE IF y < 1000 THEN Log2Milli(2 * y) - 1024
  ELSE Log2Frac(y, 10, 0)

\* Math.log10(num/den) * 1000, num > 0, den > 0 (log10 2 = 0.30103)
MathLog10(num, den) == ((Log2Milli(num) - Log2Milli(den)) * 301) \div 1024

(***************************************************************************)
(* FusionSimulator                                                         *)
(***************************************************************************)
HeatingPower == 5000
HistoryLimit == 1000
PhaseBurnTemperature == 100000
PhaseBurnPower == 100
PhaseRampTemperature == 50000

\* FusionSimulator.constructor
NewFusionSimulator(initialTemperature, initialDensity) ==
  [ temperature     |-> initialTemperature,
    density         |-> initialDensity,
    confinementTime |-> 3000,
    fusionPower     |-> 0,
    stability       |-> 500,
    phase           |-> "ignition",
    time            |-> 0,
    history         |-> << >>,
    magneticField   |-> 50 ]

\* FusionSimulator.calculateFusionPower
calculateFusionPower(s) ==
  LET n == s.density
      T == s.temperature
      T_keV == (T * 5) \div 58                          \* 1e-3 keV: T / 1.16e7
      sigma_v == (((T_keV * T_keV) \div (15000 + T_keV)) * 33) \div 2
                                                        \* 1e-24: 1.1e-21 T^2/(1+T/15)
      \* n*n*sigma_v*E_fusion, E_fusion = 17.6 * 1.602e-13 = 2.81952e-12 J
  IN  (((((n * n) \div 100000) * (sigma_v \div 10)) \div 100) * 141) \div 50

\* FusionSimulator.normalizeInput
normalizeInput(value) == Max(0, Min(1000, value))

\* the V5 equation P = 1/(1+e^(-2 gamma (Input-B)))
V5(Input, barrier, gamma) ==
  LET exponent == ((0 - 2) * gamma * (Input - barrier)) \div 10
  IN  1000000 \div (1000 + MathExp(exponent))

\* FusionSimulator.calculateV5Barrier with v5Params barrier 0.5, gamma 2.0
calculateV5Barrier(input) == V5(normalizeInput(input), 500, 20)

RECURSIVE DivPow10(_, _)
DivPow10(x, e) == IF e = 0 \/ x = 0 THEN x ELSE DivPow10(x \div 10, e - 1)

\* FusionSimulator.calculateStability
calculateStability(s) ==
  LET \* n * T * tau of the normalized values, in 1e-3
      tripleProduct == (((s.density * (s.temperature \div 100)) \div 10000)
                         * s.confinementTime) \div 3000
      \* lawsonLimit = 3e21
  IN  Min(1000, DivPow10(tripleProduct, 21) \div 3)

\* the snapshot FusionSimulator.step pushes to the history
Snapshot(s) ==
  [ time        |-> s.time,
    temperature |-> s.temperature,
    density     |-> s.density,
    fusionPower |-> s.fusionPower,
    stability   |-> s.stability,
    phase       |-> s.phase ]

\* FusionSimulator.step: "Determine phase"
DeterminePhase(s) ==
  IF s.temperature > PhaseBurnTemperature /\ s.fusionPower > PhaseBurnPower
    THEN "burn"
  ELSE IF s.temperature > PhaseRampTemperature THEN "ramp-up"
  ELSE s.phase

\* FusionSimulator.step: "Limit history size"
LimitHistoryPop(h) == IF Len(h) > HistoryLimit THEN SubSeq(h, 1, Len(h) - 1) ELSE h
LimitHistory(h) == IF Len(h) > HistoryLimit THEN Tail(h) ELSE h

\* FusionSimulator.step: the power that is stored in the state
StoredFusionPowerAfter(fusionPower, updated) == calculateFusionPower(updated)
StoredFusionPower(fusionPower, updated) == fusionPower

\* FusionSimulator.step(deltaTime): the simulator's state after the call
FusionSimulator_step(s, deltaTime) ==
  LET s1 == [s EXCEPT !.time = @ + deltaTime]
      fusionPower == calculateFusionPower(s1)
      heated == s1.temperature + ((HeatingPower + fusionPower) * deltaTime) \div 1000
      \* temperature *= (1 - coolingFactor * deltaTime), coolingFactor = 0.01
      s2 == [s1 EXCEPT !.temperature = (heated * (1000 - deltaTime)) \div 1000]
      \* density += fuelingRate * deltaTime; density *= (1 - 0.001 * deltaTime)
      fueled == s2.density + 10 * deltaTime
      s3 == [s2 EXCEPT !.density = (fueled * (10000 - deltaTime)) \div 10000]
      s4 == [s3 EXCEPT !.confinementTime =
                3000 + (300 * MathLog10(s3.temperature, 100000)) \div 1000]
      s5 == [s4 EXCEPT !.fusionPower = StoredFusionPower(fusionPower, s4)]
      s6 == [s5 EXCEPT !.stability = calculateV5Barrier(calculateStability(s5))]
      s7 == [s6 EXCEPT !.phase = DeterminePhase(s6)]
      s8 == [s7 EXCEPT !.history = Append(@, Snapshot(s7))]
  IN  [s8 EXCEPT !.history = LimitHistory(@)]

\* FusionSimulator.getState: a shallow copy of the state
FusionSimulator_getState(s) == [k \in DOMAIN s \ {"magneticField"} |-> s[k]]

\* FusionSimulator.getState as the caller holds it: `{ ...this.state }` copies
\* the fields, and the copy's history field is the simulator's own array
HistoryRef == [ref |-> "this.state.history"]
ReturnedState(s) == [FusionSimulator_getState(s) EXCEPT !.history = HistoryRef]

\* FusionSimulator.getHistory: `[...this.state.history]`, a new array
FusionSimulator_getHistory(s) == s.history

\* `if (control.<key>)`: the property is there and is not 0
Truthy(control, key) == key \in DOMAIN control /\ control[key] # 0

\* FusionSimulator.applyControl(control), fueling in 1e-3: the simulator after it
applyControl(s, control) ==
  LET fueled == IF Truthy(control, "fueling")
                  THEN [s EXCEPT !.density = (@ * (1000 + control.fueling)) \div 1000]
                ELSE s
  IN  IF Truthy(control, "magneticField")
        THEN [fueled EXCEPT !.magneticField = control.magneticField]
      ELSE fueled

\* the values a double run of step leaves finite and the fixed point can hold
InRange(s) ==
  /\ s.temperature >= 1 /\ s.temperature <= MaxTemperature
  /\ s.density >= 0 /\ s.density <= MaxDensity

(***************************************************************************)
(* DecisionEngine                                                          *)
(***************************************************************************)
\* a JavaScript Map with no entries; a Map is modelled as a function of its keys
EmptyMap == [k \in {} |-> k]

MapSet(m, key, value) ==
  [k \in DOMAIN m \cup {key} |-> IF k = key THEN value ELSE m[k]]

\* config.<key> || dflt
OrDefault(cfg, key, dflt) ==
  IF key \in DOMAIN cfg /\ cfg[key] # 0 THEN cfg[key] ELSE dflt

\* DecisionEngine.constructor
NewDecisionEngine(cfg) ==
  [ \* decisionThreshold: config.decisionThreshold || 0.7, then ...config
    decisionThreshold |-> IF "decisionThreshold" \in DOMAIN cfg
                            THEN cfg.decisionThreshold ELSE 700,
    barrier     |-> OrDefault(cfg, "barrier", 500),
    gamma       |-> OrDefault(cfg, "gamma", 15),
    history     |-> << >>,
    patterns    |-> EmptyMap,
    currentBest |-> [heating |-> "PID", fueling |-> "Feedback", magnetic |-> "Adaptive"] ]

\* DecisionEngine.hashState: the key `${t}_${d}_${s}`
hashStateNoStability(state) ==
  [ t |-> state.temperature \div 10000, d |-> state.density \div 1000, s |-> 0 ]
hashState(state) ==
  [ t |-> state.temperature \div 10000,     \* Math.floor(temperature / 1e7)
    d |-> state.density \div 1000,          \* Math.floor(density / 1e19)
    s |-> state.stability \div 100 ]        \* Math.floor(stability * 10)

\* DecisionEngine.compareState: diff = |current - pattern| / (pattern + 1) < 0.2.
\* The 1 is 1000 units of stability and less than one unit of the other keys.
DiffBelow(key, c, p) ==
  IF key = "stability" THEN 5 * Abs(c - p) < p + 1000
  ELSE 5 * Abs(c - p) <= p

RECURSIVE SumWeights(_)
SumWeights(keys) ==
  IF keys = {} THEN 0
  ELSE LET key == CHOOSE k \in keys : TRUE
       IN (IF key = "stability" THEN 2 ELSE 1) + SumWeights(keys \ {key})

\* DecisionEngine.compareState; pattern[key] is undefined where pattern has no
\* property key
compareState(current, pattern) ==
  LET keys == {"temperature", "density", "stability", "fusionPower"}
      defined == {key \in keys : key \in DOMAIN pattern}
      totalWeight == SumWeights(defined)
      matchedWeight ==
        SumWeights({key \in defined : DiffBelow(key, current[key], pattern[key])})
  IN  IF totalWeight > 0 THEN (matchedWeight * 1000) \div totalWeight ELSE 0

RECURSIVE SetMax(_)
SetMax(S) ==
  IF S = {} THEN 0
  ELSE LET x == CHOOSE y \in S : TRUE IN Max(x, SetMax(S \ {x}))

\* DecisionEngine.calculateMatchScore: `for (const [pattern, score] of
\* this.patterns)` binds pattern to the entry's key and score to its value
calculateMatchScoreNoDefault(e, state) ==
  SetMax({compareState(state, pattern) : pattern \in DOMAIN e.patterns})
calculateMatchScore(e, state) ==
  IF DOMAIN e.patterns = {} THEN 500
  ELSE SetMax({compareState(state, pattern) : pattern \in DOMAIN e.patterns})

\* DecisionEngine.calculateDecision
calculateDecision(e, input) ==
  LET matchScore == calculateMatchScore(e, input)
      P == V5(matchScore, e.barrier, e.gamma)
  IN  [ probability  |-> P,
        confidence   |-> P,
        shouldDecide |-> P > e.decisionThreshold,
        matchScore   |-> matchScore ]

\* DecisionEngine.decideHeating
decideHeatingStabilityFirst(e, state) ==
  IF state.stability < 300
    THEN [algorithm |-> "ML-PID", reason |-> "Stability low, use ML-enhanced PID"]
  ELSE IF state.temperature < 50000
    THEN [algorithm |-> "PID", reason |-> "Temperature too low, use aggressive PID"]
  ELSE IF state.phase = "burn"
    THEN [algorithm |-> "Adaptive", reason |-> "Burn phase, adaptive control"]
  ELSE [algorithm |-> e.currentBest.heating, reason |-> "Normal operation"]
decideHeating(e, state) ==
  IF state.temperature < 50000
    THEN [algorithm |-> "PID", reason |-> "Temperature too low, use aggressive PID"]
  ELSE IF state.stability < 300
    THEN [algorithm |-> "ML-PID", reason |-> "Stability low, use ML-enhanced PID"]
  ELSE IF state.phase = "burn"
    THEN [algorithm |-> "Adaptive", reason |-> "Burn phase, adaptive control"]
  ELSE [algorithm |-> e.currentBest.heating, reason |-> "Normal operation"]

\* DecisionEngine.decideFuel
decideFuel(e, state) ==
  IF state.density < 5000
    THEN [algorithm |-> "Pulsed", reason |-> "Low density, pulsed fueling"]
  ELSE IF state.stability < 400
    THEN [algorithm |-> "Predictive", reason |-> "Low stability, predictive fueling"]
  ELSE IF state.phase = "burn"
    THEN [algorithm |-> "Feedback", reason |-> "Burn phase, feedback control"]
  ELSE [algorithm |-> e.currentBest.fueling, reason |-> "Normal operation"]

\* DecisionEngine.decideMagnetic
decideMagnetic(e, state) ==
  IF state.stability < 300
    THEN [algorithm |-> "AI", reason |-> "Critical stability, use AI control"]
  ELSE IF state.phase = "burn"
    THEN [algorithm |-> "Optimized", reason |-> "Burn phase, optimized magnetic field"]
  ELSE [algorithm |-> e.currentBest.magnetic, reason |-> "Normal operation"]

\* DecisionEngine.learn with other choices: the stability from which a decision
\* counts as a success (1e-3 below it at least), whether a success is needed to
\* overwrite the current best, whether an existing pattern's values are refreshed
learnVariant(e, state, decision, successAbove, needsSuccess, refresh) ==
  LET patternKey == hashState(state)
      values == [ temperature |-> state.temperature,
                  density     |-> state.density,
                  stability   |-> state.stability,
                  fusionPower |-> state.fusionPower ]
      old == IF patternKey \in DOMAIN e.patterns THEN e.patterns[patternKey]
             ELSE values @@ [count |-> 0, totalScore |-> 0]
      kept == IF refresh THEN values @@ old ELSE old
      successScore == IF state.stability > successAbove THEN 1 ELSE 0
      pattern == [kept EXCEPT !.count = @ + 1, !.totalScore = @ + successScore]
  IN  [e EXCEPT !.patterns = MapSet(e.patterns, patternKey, pattern),
                !.currentBest = IF successScore = 1 \/ ~needsSuccess
                                  THEN decision.actions ELSE @]

learnStabilityAtLeastHalf(e, state, decision) ==
  learnVariant(e, state, decision, 499, TRUE, FALSE)
learnLastSeen(e, state, decision) ==
  learnVariant(e, state, decision, 500, TRUE, TRUE)
learnAlways(e, state, decision) ==
  learnVariant(e, state, decision, 500, FALSE, FALSE)

\* DecisionEngine.learn: the engine after learning
learn(e, state, decision) ==
  LET patternKey == hashState(state)
      seeded == IF patternKey \in DOMAIN e.patterns THEN e.patterns
                ELSE MapSet(e.patterns, patternKey,
                            [ temperature |-> state.temperature,
                              density     |-> state.density,
                              stability   |-> state.stability,
                              fusionPower |-> state.fusionPower,
                              count       |-> 0,
                              totalScore  |-> 0 ])
      successScore == IF state.stability > 500 THEN 1 ELSE 0
      pattern == [seeded[patternKey] EXCEPT !.count = @ + 1,
                                            !.totalScore = @ + successScore]
  IN  [e EXCEPT !.patterns = MapSet(seeded, patternKey, pattern),
                \* if (successScore > 0.8)
                !.currentBest = IF successScore * 10 > 8
                                  THEN [ heating  |-> decision.actions.heating,
                                         fueling  |-> decision.actions.fueling,
                                         magnetic |-> decision.actions.magnetic ]
                                  ELSE @]

\* DecisionEngine.decide: the decision returned, the engine after the call, and
\* calculateDecision's result (of which the decision keeps two fields)
decide(e, fusionState) ==
  LET heatingDecision == decideHeating(e, fusionState)
      fuelingDecision == decideFuel(e, fusionState)
      magneticDecision == decideMagnetic(e, fusionState)
      v5Result == calculateDecision(e, fusionState)
      decision ==
        [ state     |-> [ temperature |-> fusionState.temperature,
                          density     |-> fusionState.density,
                          stability   |-> fusionState.stability,
                          phase       |-> fusionState.phase ],
          actions   |-> [ heating  |-> heatingDecision.algorithm,
                          fueling  |-> fuelingDecision.algorithm,
                          magnetic |-> magneticDecision.algorithm ],
          rationale |-> << heatingDecision.reason, fuelingDecision.reason,
                           magneticDecision.reason >>,
          confidence |-> v5Result.confidence,
          shouldAct  |-> v5Result.shouldDecide ]
      learned == learn(e, fusionState, decision)
  IN  [ decision |-> decision,
        engine   |-> [learned EXCEPT !.history = Append(@, decision)],
        v5Result |-> v5Result ]

(***************************************************************************)
(* TwinCosmos                                                              *)
(***************************************************************************)
NoCall == [op |-> "none"]

\* TwinCosmos.constructor, for one config
TwinCosmosNew(cfg) ==
  /\ config = cfg
  /\ initialized = FALSE
  /\ time = 0
  /\ memory = Null
  /\ fusion = Null
  /\ engine = Null
  /\ lastCall = NoCall
  /\ ticks = 0
  /\ pushed = << >>
  /\ v5Trace = << >>
  /\ held = Null
  /\ controlled = << >>

\* TwinCosmos.initialize: the components it creates
MemoryComponent(cfg) == IF cfg.memoryEnabled THEN [data |-> << >>] ELSE Null
FusionComponent(cfg) ==
  IF cfg.fusionEnabled THEN NewFusionSimulator(100000, 10000) ELSE Null
DecisionComponentAlways(cfg) == NewDecisionEngine([memory |-> MemoryComponent(cfg)])
DecisionComponent(cfg) ==
  IF cfg.decisionEnabled THEN NewDecisionEngine([memory |-> MemoryComponent(cfg)])
  ELSE Null

\* TwinCosmos.initialize, called once by the driver
Initialize ==
  /\ ~initialized
  /\ memory' = MemoryComponent(config)
  /\ fusion' = FusionComponent(config)
  /\ engine' = DecisionComponent(config)
  /\ initialized' = TRUE
  /\ lastCall' = [op |-> "initialize"]
  /\ UNCHANGED <<config, time, ticks, pushed, v5Trace, held, controlled>>

\* memory.store: Map.set keeps an existing key's place and appends a new key
MemoryStore(data, key, value, meta) ==
  IF \E i \in 1..Len(data) : data[i].key = key
    THEN [i \in 1..Len(data) |->
            IF data[i].key = key THEN [key |-> key, value |-> value, meta |-> meta]
            ELSE data[i]]
  ELSE Append(data, [key |-> key, value |-> value, meta |-> meta])

\* TwinCosmos.step: `if (!this.state.initialized) throw`
NotInitializedNever == FALSE
NotInitialized == ~initialized

\* TwinCosmos.step: the state decide is given, results.fusion, where before and
\* after are the simulator before and after this tick's FusionSimulator.step
ResultsFusionStale(before, after) == FusionSimulator_getState(before)
ResultsFusion(before, after) == FusionSimulator_getState(after)

\* TwinCosmos.step(deltaTime)
Step(deltaTime) ==
  IF NotInitialized
    THEN /\ lastCall' = [op |-> "step", deltaTime |-> deltaTime,
                         threw |-> "TwinCosmos not initialized"]
         /\ UNCHANGED <<config, initialized, time, memory, fusion, engine, ticks,
                        pushed, v5Trace, held, controlled>>
  ELSE
    LET stepped == IF fusion # Null THEN FusionSimulator_step(fusion, deltaTime)
                   ELSE Null
        resultsFusion == IF fusion # Null THEN ResultsFusion(fusion, stepped) ELSE Null
        deciding == engine # Null /\ resultsFusion # Null
        decided == decide(engine, resultsFusion)
        resultsDecision == IF deciding THEN decided.decision ELSE Null
        storing == memory # Null /\ resultsDecision # Null
    IN  /\ ticks < MaxTicks
        /\ fusion # Null => InRange(stepped)
        /\ time' = time + deltaTime
        /\ fusion' = stepped
        /\ engine' = IF deciding THEN decided.engine ELSE engine
        /\ memory' = IF storing
                       THEN [data |-> MemoryStore(memory.data, <<"step_", time'>>,
                                                  resultsDecision,
                                                  [type |-> "decision"])]
                     ELSE memory
        /\ lastCall' = [op |-> "step", deltaTime |-> deltaTime,
                        results |-> [ time     |-> time',
                                      fusion   |-> resultsFusion,
                                      decision |-> resultsDecision,
                                      memory   |-> Null ]]
        /\ ticks' = ticks + 1
        /\ pushed' = IF fusion # Null THEN Append(pushed, stepped.history[Len(stepped.history)])
                     ELSE pushed
        /\ v5Trace' = IF deciding
                        THEN Append(v5Trace, [input |-> resultsFusion,
                                              v5Result |-> decided.v5Result])
                      ELSE v5Trace
        /\ UNCHANGED <<config, initialized, held, controlled>>

\* the deltaTime values the drivers pass: 0, 0.1 (run), 0.5 (01-basic-simulation),
\* 1.0 (the default)
DeltaTimes == {0, 1, 5, 10}

Configs == [memoryEnabled : BOOLEAN, fusionEnabled : BOOLEAN, decisionEnabled : BOOLEAN]

Init == \E cfg \in Configs : TwinCosmosNew(cfg)

StepAny == \E deltaTime \in DeltaTimes : Step(deltaTime)

Next == Initialize \/ StepAny

Spec == Init /\ [][Next]_vars

(***************************************************************************)
(* A FusionSimulator driven on its own (examples/03-fusion-reactor.js)     *)
(***************************************************************************)
\* no TwinCosmos exists
NoTwinCosmos ==
  /\ config = Null
  /\ initialized = FALSE
  /\ time = 0
  /\ memory = Null
  /\ ticks = 0

\* new FusionSimulator({initialTemperature, initialDensity})
FusionNew(initialTemperature, initialDensity) ==
  /\ NoTwinCosmos
  /\ engine = Null
  /\ fusion = NewFusionSimulator(initialTemperature, initialDensity)
  /\ lastCall = NoCall
  /\ pushed = << >>
  /\ v5Trace = << >>
  /\ held = Null
  /\ controlled = << >>

\* the driver's loop `for (let i = 0; i < steps; i++) reactor.step(deltaTime)`:
\* the simulator after it, the snapshots its steps pushed, and whether every
\* step left the values in range
RECURSIVE StepLoop(_, _, _)
StepLoop(run, deltaTime, steps) ==
  IF steps = 0 \/ ~run.inRange THEN run
  ELSE IF steps = 1
    THEN LET stepped == FusionSimulator_step(run.fusion, deltaTime)
         IN  [ fusion  |-> stepped,
               pushed  |-> Append(run.pushed, stepped.history[Len(stepped.history)]),
               inRange |-> InRange(stepped) ]
  ELSE \* the first half of the iterations, then the rest
       LET half == StepLoop(run, deltaTime, steps \div 2)
       IN  StepLoop(half, deltaTime, steps - steps \div 2)

\* `steps` calls reactor.step(deltaTime) in a row, at most maxSteps calls in all
FusionLoop(deltaTime, steps, maxSteps) ==
  LET run == StepLoop([fusion |-> fusion, pushed |-> pushed, inRange |-> TRUE],
                      deltaTime, steps)
  IN  /\ Len(pushed) + steps <= maxSteps
      /\ run.inRange
      /\ fusion' = run.fusion
      /\ pushed' = run.pushed
      /\ lastCall' = [op |-> "step", deltaTime |-> deltaTime,
                      results |-> FusionSimulator_getState(run.fusion)]
      /\ UNCHANGED <<config, initialized, time, memory, engine, ticks, v5Trace,
                     held, controlled>>

\* reactor.step(deltaTime), at most maxSteps times
FusionStep(deltaTime, maxSteps) == FusionLoop(deltaTime, 1, maxSteps)

\* the constructor's defaults (1e8 K, 1e20 m^-3), the reactor of
\* 03-fusion-reactor.js (1e7 K, 5e19 m^-3), and a hot thin plasma
InitialPlasmas == { <<100000, 10000>>, <<10000, 5000>>, <<102000, 1000>> }

InitFusion == \E p \in InitialPlasmas : FusionNew(p[1], p[2])

NextFusion == \E deltaTime \in DeltaTimes : FusionStep(deltaTime, MaxFusionSteps)

SpecFusion == InitFusion /\ [][NextFusion]_vars

\* the loop of demoFusionReactor run long: one deltaTime throughout, 0.1 s or
\* 0.2 s, the calls made one at a time or `steps` in a row (30 in the demo, 100
\* as in TwinCosmos.run).  A loop starts on a multiple of its length; the single
\* calls reach every number of calls, so this loses no state.
LongRunDeltaTimes == {1, 2}
LoopSteps == {1, 30, 100}

InitLongRun == FusionNew(10000, 5000)

NextLongRun ==
  \E deltaTime \in LongRunDeltaTimes, steps \in LoopSteps :
    /\ lastCall.op = "step" => lastCall.deltaTime = deltaTime
    /\ Len(pushed) % steps = 0
    /\ FusionLoop(deltaTime, steps, MaxLongRun)

SpecLongRun == InitLongRun /\ [][NextLongRun]_vars

(***************************************************************************)
(* A FusionSimulator with a caller that reads it, keeps what it read,      *)
(* writes to what it kept, and applies controls                            *)
(***************************************************************************)
MaxControlSteps == 2
MaxControls == 2

\* const state = reactor.getState()
GetState ==
  /\ held' = [op |-> "getState", value |-> ReturnedState(fusion)]
  /\ lastCall' = [op |-> "getState", results |-> FusionSimulator_getState(fusion)]
  /\ UNCHANGED <<config, initialized, time, memory, fusion, engine, ticks, pushed,
                 v5Trace, controlled>>

\* const history = reactor.getHistory()
GetHistory ==
  /\ held' = [op |-> "getHistory", value |-> FusionSimulator_getHistory(fusion)]
  /\ lastCall' = [op |-> "getHistory", results |-> FusionSimulator_getHistory(fusion)]
  /\ UNCHANGED <<config, initialized, time, memory, fusion, engine, ticks, pushed,
                 v5Trace, controlled>>

\* what the caller reads in the value it holds
ReadHeld ==
  IF held.op = "getState" THEN [held.value EXCEPT !.history = fusion.history]
  ELSE held.value

\* the caller empties the array it holds: `state.history.length = 0` on a
\* getState result, `history.length = 0` on a getHistory result
TruncateHeld ==
  /\ held # Null
  /\ IF held.op = "getState"
       THEN /\ fusion.history # << >>
            /\ fusion' = [fusion EXCEPT !.history = << >>]
            /\ held' = held
     ELSE /\ held.value # << >>
          /\ held' = [held EXCEPT !.value = << >>]
          /\ fusion' = fusion
  /\ lastCall' = [op |-> "write"]
  /\ UNCHANGED <<config, initialized, time, memory, engine, ticks, pushed, v5Trace,
                 controlled>>

\* reactor.applyControl(control)
ApplyControl(control) ==
  LET applied == applyControl(fusion, control)
  IN  /\ Len(controlled) < MaxControls
      /\ InRange(applied)
      /\ fusion' = applied
      /\ controlled' = Append(controlled, control)
      /\ lastCall' = [op |-> "applyControl", control |-> control]
      /\ UNCHANGED <<config, initialized, time, memory, engine, ticks, pushed,
                     v5Trace, held>>

\* controls: heating 1 MW, fueling +10% and -50%, magnetic field 6.0 T and 0 T,
\* and all three at once
Controls ==
  { [heating |-> 100], [fueling |-> 100], [fueling |-> 0 - 500],
    [magneticField |-> 60], [magneticField |-> 0],
    [heating |-> 100, fueling |-> 50, magneticField |-> 45] }

InitControl == FusionNew(100000, 10000)

ControlStep == \E deltaTime \in DeltaTimes : FusionStep(deltaTime, MaxControlSteps)

ApplyAnyControl == \E control \in Controls : ApplyControl(control)

NextControl == ControlStep \/ GetState \/ GetHistory \/ TruncateHeld \/ ApplyAnyControl

SpecControl == InitControl /\ [][NextControl]_vars

(***************************************************************************)
(* A DecisionEngine driven on its own (examples/02-decision-engine.js)     *)
(***************************************************************************)
\* the constructor's config: the demo's, TwinCosmos.initialize's, and two more
EngineConfigs ==
  { [barrier |-> 500, gamma |-> 20, decisionThreshold |-> 700],
    [memory |-> Null],
    [barrier |-> 500, gamma |-> 10, decisionThreshold |-> 500],
    [barrier |-> 300, gamma |-> 15, decisionThreshold |-> 400] }

PlasmaState(temperature, density, stability, fusionPower, phase) ==
  [ temperature |-> temperature, density |-> density, stability |-> stability,
    fusionPower |-> fusionPower, phase |-> phase ]

\* the demo's five test cases (they have no phase), and states with a phase
TestCases ==
  { PlasmaState(1000, 100, 100, 0, "undefined"),          \* Cold Start
    PlasmaState(50000, 5000, 300, 1, "undefined"),        \* Heating Up
    PlasmaState(80000, 10000, 600, 100, "undefined"),     \* Near Ignition
    PlasmaState(150000, 10000, 850, 5000, "undefined"),   \* Burn Phase
    PlasmaState(100000, 10000, 950, 10000, "undefined"),  \* Stable Operation
    PlasmaState(101000, 10050, 960, 10100, "burn"),
    PlasmaState(120000, 10000, 350, 3000, "burn"),
    PlasmaState(60000, 8000, 200, 50, "ramp-up"),
    PlasmaState(40000, 3000, 700, 10, "ignition"),
    PlasmaState(110000, 9000, 500, 2000, "burn") }

EngineNew(cfg) ==
  /\ NoTwinCosmos
  /\ fusion = Null
  /\ engine = NewDecisionEngine(cfg)
  /\ lastCall = NoCall
  /\ pushed = << >>
  /\ v5Trace = << >>
  /\ held = Null
  /\ controlled = << >>

\* engine.decide(testCase.state)
EngineDecide(state) ==
  LET decided == decide(engine, state)
  IN  /\ Len(engine.history) < MaxDecisions
      /\ engine' = decided.engine
      /\ lastCall' = [op |-> "decide", results |-> decided.decision]
      /\ v5Trace' = Append(v5Trace, [input |-> state, v5Result |-> decided.v5Result])
      /\ UNCHANGED <<config, initialized, time, memory, fusion, ticks, pushed,
                     held, controlled>>

InitEngine == \E cfg \in EngineConfigs : EngineNew(cfg)

NextEngine == \E state \in TestCases : EngineDecide(state)

SpecEngine == InitEngine /\ [][NextEngine]_vars

(***************************************************************************)
(* The memory component driven on its own: store and retrieve of the       *)
(* object TwinCosmos.initialize creates.  A string is the sequence of its  *)
(* characters; a value is a JSON string, number or one-property object.    *)
(***************************************************************************)
Quote == "\""

JSONString(chars) == [type |-> "string", chars |-> chars]
JSONNumber(digits) == [type |-> "number", digits |-> digits]
JSONObject(name, value) == [type |-> "object", name |-> name, value |-> value]

\* JSON.stringify(value): "a" gives "\"a\"", 12 gives "12", {x: v} gives
\* "{\"x\":" followed by v's text and "}"
RECURSIVE JSONStringify(_)
JSONStringify(value) ==
  IF value.type = "string" THEN <<Quote>> \o value.chars \o <<Quote>>
  ELSE IF value.type = "number" THEN value.digits
  ELSE <<"{", Quote>> \o value.name \o <<Quote, ":">>
         \o JSONStringify(value.value) \o <<"}">>

\* String.prototype.includes: the first position is tried, then the next ones
RECURSIVE IncludesFrom(_, _, _)
IncludesFrom(str, query, from) ==
  IF from + Len(query) > Len(str) + 1 THEN FALSE
  ELSE IF SubSeq(str, from, from + Len(query) - 1) = query THEN TRUE
  ELSE IncludesFrom(str, query, from + 1)

Includes(str, query) == IncludesFrom(str, query, 1)

\* memory.retrieve: the test of one entry
RetrieveMatchKeyOnly(entry, query) == Includes(entry.key, query)
RetrieveMatch(entry, query) ==
  Includes(entry.key, query) \/ Includes(JSONStringify(entry.value), query)

\* memory.retrieve(query): the loop over the Map's entries in insertion order
RECURSIVE RetrieveFrom(_, _, _, _)
RetrieveFrom(data, query, i, results) ==
  IF i > Len(data) THEN results
  ELSE RetrieveFrom(data, query, i + 1,
                    IF RetrieveMatch(data[i], query)
                      THEN Append(results, data[i]) ELSE results)

MemoryRetrieve(data, query) == RetrieveFrom(data, query, 1, << >>)

\* await memory.store(key, value, meta)
StoreCall(key, value, meta) ==
  /\ memory # Null
  /\ memory' = [data |-> MemoryStore(memory.data, key, value, meta)]
  /\ lastCall' = [op |-> "store", key |-> key, value |-> value, results |-> TRUE]
  /\ UNCHANGED <<config, initialized, time, fusion, engine, ticks, pushed, v5Trace,
                 held, controlled>>

\* await memory.retrieve(query)
RetrieveCall(query) ==
  /\ memory # Null
  /\ lastCall' = [op |-> "retrieve", query |-> query,
                  results |-> MemoryRetrieve(memory.data, query)]
  /\ UNCHANGED <<config, initialized, time, memory, fusion, engine, ticks, pushed,
                 v5Trace, held, controlled>>

\* the keys, values and queries of the driver
MemoryKeys == { <<"a", "1">>, <<"b">>, <<"a", "b">> }
MemoryValues ==
  { JSONString(<<"z">>), JSONNumber(<<"1", "2">>),
    JSONObject(<<"b">>, JSONString(<<"a">>)), JSONObject(<<"k">>, JSONNumber(<<"1">>)) }
MemoryQueries ==
  { << >>, <<"a">>, <<"1">>, <<"a", "1">>, <<"b">>, <<"2">>, <<"q">>,
    <<Quote, "a">>, <<":", "1">>, <<"1", "a">> }

InitMemory ==
  TwinCosmosNew([memoryEnabled |-> TRUE, fusionEnabled |-> FALSE,
                 decisionEnabled |-> FALSE])

StoreAny ==
  \E key \in MemoryKeys, value \in MemoryValues :
    StoreCall(key, value, [type |-> "note"])

RetrieveAny == \E query \in MemoryQueries : RetrieveCall(query)

NextMemory == Initialize \/ StoreAny \/ RetrieveAny

SpecMemory == InitMemory /\ [][NextMemory]_vars

(***************************************************************************)
(* Properties of TwinCosmos (specification Spec)                           *)
(***************************************************************************)
Returned == lastCall.op = "step" /\ "results" \in DOMAIN lastCall
Threw == lastCall.op = "step" /\ "threw" \in DOMAIN lastCall

\* C1: a call of TwinCosmos.step before initialize fails with 'TwinCosmos not
\* initialized' and changes nothing: as long as the system is not initialized,
\* whatever calls of step were made, the elapsed time is the constructor's 0, no
\* component exists, no plasma update ran, no decision was made, nothing was
\* logged, and the last call of step threw that error.
C1_StepBeforeInitializeFails ==
  ~initialized =>
    /\ time = 0 /\ ticks = 0
    /\ fusion = Null /\ engine = Null /\ memory = Null
    /\ pushed = << >> /\ v5Trace = << >>
    /\ lastCall.op = "step" =>
         (Threw /\ lastCall.threw = "TwinCosmos not initialized")

C1_Witness == ~initialized /\ Threw /\ lastCall.deltaTime = 10

AllEnabled ==
  config.memoryEnabled /\ config.fusionEnabled /\ config.decisionEnabled

\* the four fields a decision keeps of the state it was given
DecisionStateOf(snapshot) ==
  [ temperature |-> snapshot.temperature,
    density     |-> snapshot.density,
    stability   |-> snapshot.stability,
    phase       |-> snapshot.phase ]

\* C4: with all components enabled, after initialize and N ticks the decision
\* history holds exactly N decisions, and the k-th decision's state snapshot is
\* the plasma state that the k-th tick's own update produced (the snapshot that
\* update pushed), so the update precedes the decision within a tick.
C4_OneDecisionPerTickOnUpdatedState ==
  (initialized /\ AllEnabled) =>
    /\ Len(engine.history) = ticks
    /\ Len(pushed) = ticks
    /\ \A k \in 1..ticks : engine.history[k].state = DecisionStateOf(pushed[k])

C4_Witness ==
  /\ initialized /\ AllEnabled /\ ticks = 3
  /\ engine.history[3].state.temperature # engine.history[1].state.temperature
  /\ engine.history[3].state.temperature # 100000

\* C5: a disabled component never makes a tick fail and produces nothing
\* downstream.  After initialize every call of step returns; without the decision
\* engine every tick returns decision = null and nothing is logged; without the
\* simulator every tick returns fusion = null and decision = null, no decision is
\* recorded and nothing is logged; without memory (the rest enabled) every tick
\* still makes and records its decision.
C5_DisabledComponentsAreSilent ==
  initialized =>
    /\ lastCall.op = "step" => Returned
    /\ ~config.decisionEnabled =>
         /\ engine = Null /\ v5Trace = << >>
         /\ Returned => lastCall.results.decision = Null
         /\ memory # Null => memory.data = << >>
    /\ ~config.fusionEnabled =>
         /\ Returned => (lastCall.results.fusion = Null
                         /\ lastCall.results.decision = Null)
         /\ engine # Null => engine.history = << >>
         /\ memory # Null => memory.data = << >>
    /\ (~config.memoryEnabled /\ config.fusionEnabled /\ config.decisionEnabled) =>
         /\ memory = Null
         /\ Len(engine.history) = ticks
         /\ Returned => (lastCall.results.decision # Null
                         /\ lastCall.results.decision = engine.history[ticks])

C5_Witness ==
  /\ initialized /\ ~config.decisionEnabled
  /\ config.fusionEnabled /\ config.memoryEnabled
  /\ ticks = 2 /\ Returned /\ lastCall.results.fusion # Null

\* C12: the log is append-only across ticks: with all components enabled every
\* tick writes one new entry holding that tick's decision and no tick overwrites
\* an earlier tick's entry, so after N ticks, whatever the deltaTime values, the
\* log holds N entries, the k-th one the decision of tick k.
C12_LogIsAppendOnly ==
  (initialized /\ AllEnabled) =>
    /\ Len(memory.data) = ticks
    /\ \A k \in 1..ticks : memory.data[k].value = engine.history[k]

(***************************************************************************)
(* Properties of the FusionSimulator (SpecFusion, SpecLongRun)             *)
(***************************************************************************)
\* C2: phase is monotonic: once the phase is 'burn', no later call of step sets
\* it back to 'ignition' or 'ramp-up'.
C2_PhaseNeverLeavesBurn ==
  [][fusion.phase = "burn" => fusion'.phase \notin {"ignition", "ramp-up"}]_vars

\* C3: the history never holds more than 1000 snapshots and is evicted first in,
\* first out: after N steps it holds the snapshots of the last min(N, 1000)
\* steps in step order (after 1001 steps the oldest is that of step 2).
C3_HistoryKeepsLast1000 ==
  LET N == Len(pushed)
      kept == IF N < 1000 THEN N ELSE 1000
  IN  /\ Len(fusion.history) = kept
      /\ \A i \in 1..kept : fusion.history[i] = pushed[N - kept + i]

C3_Witness ==
  /\ Len(pushed) = 1001
  /\ Len(fusion.history) = 1000
  /\ fusion.history[1] = pushed[2]
  /\ fusion.history[1] # pushed[1]
  /\ fusion.history[1000] = pushed[1001]

\* the closed form of the reactivity model in the model's units (1e3 K,
\* 1e16 m^-3, 1e4 W): T_keV = T/1.16e7, sigma_v = 1.1e-21 T_keV^2/(1+T_keV/15),
\* power = n^2 sigma_v 17.6 * 1.602e-13
ReactivityPower(temperature, density) ==
  LET milli_keV == (temperature * 5) \div 58
      sigma_v == (((milli_keV * milli_keV) \div (15000 + milli_keV)) * 33) \div 2
  IN  (((((density * density) \div 100000) * (sigma_v \div 10)) \div 100) * 141) \div 50

\* C10: after every call of step the stored fusionPower is the reactivity formula
\* on the temperature and density as they were before the call, and the phase
\* rule of the call compares the updated temperature with that pre-step power.
C10_StoredPowerIsPreStepPower ==
  [][fusion' # fusion =>
       LET power == ReactivityPower(fusion.temperature, fusion.density)
       IN  /\ fusion'.fusionPower = power
           /\ fusion'.phase =
                IF fusion'.temperature > 100000 /\ power > 100 THEN "burn"
                ELSE IF fusion'.temperature > 50000 THEN "ramp-up"
                ELSE fusion.phase]_vars

\* the first step of the reactor of 03-fusion-reactor.js (1e7 K, 5e19 m^-3,
\* deltaTime 1.0): the stored power is the formula on (1e7, 5e19), not on the
\* values the step wrote
C10_Witness ==
  /\ Len(pushed) = 1
  /\ fusion.fusionPower # ReactivityPower(fusion.temperature, fusion.density)
  /\ fusion.fusionPower = ReactivityPower(10000, 5000)
  /\ lastCall.deltaTime = 10

(***************************************************************************)
(* Properties of the FusionSimulator's readers and controls (SpecControl)  *)
(***************************************************************************)
\* C13: the values getState and getHistory return are read-only copies: what a
\* caller reads in a value it holds (the history inside a returned state
\* included) is not changed by a later step or applyControl, and a write to the
\* held value does not change the simulator's state or history.
C13_ReturnedValuesAreCopies ==
  [][ /\ (held # Null /\ lastCall'.op \in {"step", "applyControl"}) =>
           ReadHeld' = ReadHeld
      /\ lastCall'.op = "write" => fusion' = fusion ]_vars

\* C16: applyControl changes only what it documents: a fueling adjustment f
\* multiplies the density by (1+f), a magneticField adjustment overwrites the
\* configured magnetic field, a heating adjustment has no effect, and no call
\* changes temperature, confinement time, fusionPower, stability, phase,
\* elapsed time or history.
C16_ApplyControlChangesOnlyWhatItDocuments ==
  [][lastCall'.op = "applyControl" =>
       LET control == lastCall'.control
       IN  /\ fusion'.density =
                IF "fueling" \in DOMAIN control
                  THEN (fusion.density * (1000 + control.fueling)) \div 1000
                ELSE fusion.density
           /\ fusion'.magneticField =
                IF "magneticField" \in DOMAIN control THEN control.magneticField
                ELSE fusion.magneticField
           /\ \A field \in {"temperature", "confinementTime", "fusionPower",
                             "stability", "phase", "time", "history"} :
                fusion'[field] = fusion[field]]_vars

(***************************************************************************)
(* Properties of the DecisionEngine (SpecEngine)                           *)
(***************************************************************************)
Last(seq) == seq[Len(seq)]

\* the similarity of the current snapshot and a pattern's stored values:
\* matched weight / total weight over temperature, density, stability (weight 2)
\* and fusionPower, a key matching when |current - pattern| / (pattern + 1) < 0.2
Similarity(current, stored) ==
  LET near(c, q) == 5 * Abs(c - q) <= q
      matched ==
          (IF near(current.temperature, stored.temperature) THEN 1 ELSE 0)
        + (IF near(current.density, stored.density) THEN 1 ELSE 0)
        + (IF 5 * Abs(current.stability - stored.stability) < stored.stability + 1000
             THEN 2 ELSE 0)
        + (IF near(current.fusionPower, stored.fusionPower) THEN 1 ELSE 0)
  IN  (matched * 1000) \div 5

\* C6: when at least one pattern has been learned, the match score of a decision
\* is the maximum over the learned patterns of the similarity of the snapshot and
\* the pattern's stored values; a snapshot equal to a pattern's stored values
\* scores 1.
C6_MatchScoreIsBestSimilarity ==
  [][(engine' # engine /\ DOMAIN engine.patterns # {}) =>
       LET input == Last(v5Trace').input
           best == SetMax({Similarity(input, engine.patterns[key]) :
                             key \in DOMAIN engine.patterns})
       IN  Last(v5Trace').v5Result.matchScore = best]_vars

\* C7: in each category decide returns the label of the first rule that matches,
\* in the documented order, and the current-best label only when none matches;
\* so a snapshot with temperature < 5e7 gets heating PID whatever came before.
C7_FirstMatchingRuleWins ==
  [][engine' # engine =>
       LET state == Last(v5Trace').input
           actions == Last(engine'.history).actions
       IN  /\ actions.heating =
                IF state.temperature < 50000 THEN "PID"
                ELSE IF state.stability < 300 THEN "ML-PID"
                ELSE IF state.phase = "burn" THEN "Adaptive"
                ELSE engine.currentBest.heating
           /\ actions.fueling =
                IF state.density < 5000 THEN "Pulsed"
                ELSE IF state.stability < 400 THEN "Predictive"
                ELSE IF state.phase = "burn" THEN "Feedback"
                ELSE engine.currentBest.fueling
           /\ actions.magnetic =
                IF state.stability < 300 THEN "AI"
                ELSE IF state.phase = "burn" THEN "Optimized"
                ELSE engine.currentBest.magnetic
           /\ actions = lastCall'.results.actions]_vars

\* a cold, unstable snapshot decided after the current best heating had changed
C7_Witness ==
  /\ Len(engine.history) = 3
  /\ engine.history[1].actions.heating = "Adaptive"
  /\ engine.currentBest.heating = "Adaptive"
  /\ engine.history[3].state.temperature < 50000
  /\ engine.history[3].state.stability < 300
  /\ engine.history[3].actions.heating = "PID"
  /\ engine.history[2].actions.fueling = "Feedback"
  /\ engine.history[2].state.phase # "burn"

\* the bucket of a snapshot: floor(temperature/1e7), floor(density/1e19),
\* floor(stability*10)
BucketOf(state) ==
  [ t |-> state.temperature \div 10000,
    d |-> state.density \div 1000,
    s |-> state.stability \div 100 ]

RECURSIVE SumCounts(_, _)
SumCounts(patterns, keys) ==
  IF keys = {} THEN 0
  ELSE LET key == CHOOSE k \in keys : TRUE
       IN patterns[key].count + SumCounts(patterns, keys \ {key})

\* C8: every decide adds 1 to the count of exactly one pattern, that of the
\* snapshot's bucket; snapshots of one bucket share one aggregate; no pattern is
\* deleted; the counts sum to the number of decisions in the history.
C8_OnePatternPerBucket ==
  LET decided == {i \in 1..Len(engine.history) : TRUE}
      inBucket(key) == {i \in decided : BucketOf(engine.history[i].state) = key}
  IN  /\ DOMAIN engine.patterns = {BucketOf(engine.history[i].state) : i \in decided}
      /\ \A key \in DOMAIN engine.patterns :
           engine.patterns[key].count = Cardinality(inBucket(key))
      /\ SumCounts(engine.patterns, DOMAIN engine.patterns) = Len(engine.history)

\* two different snapshots of one bucket, and a snapshot of another bucket
C8_Witness ==
  /\ Len(engine.history) = 3
  /\ engine.history[1].state # engine.history[2].state
  /\ BucketOf(engine.history[1].state) = BucketOf(engine.history[2].state)
  /\ engine.patterns[BucketOf(engine.history[1].state)].count = 2
  /\ Cardinality(DOMAIN engine.patterns) = 2

\* C9: the first decision of a fresh engine sees no learned pattern: its match
\* score is 0.5, and with barrier 0.5 its confidence is exactly 0.5 for every
\* gamma, so shouldAct is false for every threshold >= 0.5.  In every decision
\* shouldAct is (confidence > decisionThreshold).
C9_FirstDecisionAtBarrier ==
  /\ Len(v5Trace) = Len(engine.history)
  /\ engine.history # << >> =>
       /\ v5Trace[1].v5Result.matchScore = 500
       /\ engine.barrier = 500 =>
            /\ engine.history[1].confidence = 500
            /\ engine.decisionThreshold >= 500 => ~engine.history[1].shouldAct
  /\ \A i \in 1..Len(engine.history) :
       /\ engine.history[i].confidence = v5Trace[i].v5Result.confidence
       /\ engine.history[i].shouldAct =
            (engine.history[i].confidence > engine.decisionThreshold)

C9_Witness ==
  /\ Len(engine.history) = 2
  /\ engine.barrier = 500 /\ engine.gamma = 10 /\ engine.decisionThreshold = 500
  /\ engine.history[1].confidence = 500 /\ ~engine.history[1].shouldAct
  /\ engine.history[2].confidence # 500

(***************************************************************************)
(* Properties of the memory component (SpecMemory)                         *)
(***************************************************************************)
\* q occurs in str at some position
Contains(str, q) ==
  \E i \in 1..(Len(str) + 1) :
    /\ i + Len(q) - 1 <= Len(str)
    /\ \A j \in 1..Len(q) : str[i + j - 1] = q[j]

Matches(entry, q) == Contains(entry.key, q) \/ Contains(JSONStringify(entry.value), q)

\* C11: after any sequence of store calls, retrieve(q) returns exactly the stored
\* entries whose key contains q or whose JSON-serialized value contains q, each
\* once and in the order they are stored, and the empty list when none matches;
\* store returns true and leaves its value under its key; there is at most one
\* entry per key.
C11_RetrieveReturnsTheMatches ==
  memory # Null =>
    LET data == memory.data
        matching == {i \in 1..Len(data) : Matches(data[i], lastCall.query)}
    IN  /\ \A i, j \in 1..Len(data) : data[i].key = data[j].key => i = j
        /\ lastCall.op = "store" =>
             /\ lastCall.results = TRUE
             /\ \E i \in 1..Len(data) :
                  data[i].key = lastCall.key /\ data[i].value = lastCall.value
        /\ lastCall.op = "retrieve" =>
             /\ Len(lastCall.results) = Cardinality(matching)
             /\ \A i \in matching :
                  \E r \in 1..Len(lastCall.results) :
                    /\ lastCall.results[r] = data[i]
                    /\ r = Cardinality({m \in matching : m <= i})
             /\ matching = {} => lastCall.results = << >>

\* of three entries the query "1" gets the one with key "a1" and one whose key
\* has no "1" but whose value does, and not the third
C11_Witness ==
  /\ memory # Null /\ Len(memory.data) = 3
  /\ lastCall.op = "retrieve" /\ lastCall.query = <<"1">>
  /\ Len(lastCall.results) = 2
  /\ \E r \in 1..2 : lastCall.results[r].key = <<"a", "1">>
  /\ \E r \in 1..2 : lastCall.results[r].key = <<"b">>

(***************************************************************************)
(* Properties of DecisionEngine.learn (SpecEngine)                         *)
(***************************************************************************)
\* C14: a decide call overwrites the current-best labels exactly when the
\* snapshot's stability is > 0.5, and then with the three labels chosen in that
\* call; at stability <= 0.5 they are left as they were.  The cumulative score
\* of the snapshot's pattern grows by 1 if stability > 0.5 and by 0 otherwise,
\* and every pattern keeps 0 <= totalScore <= count.
C14_BestOverwrittenOnSuccessOnly ==
  [][engine' # engine =>
       LET state == Last(v5Trace').input
           actions == Last(engine'.history).actions
           key == BucketOf(state)
           before == IF key \in DOMAIN engine.patterns
                       THEN engine.patterns[key].totalScore ELSE 0
       IN  /\ engine'.currentBest =
                IF state.stability > 500 THEN actions ELSE engine.currentBest
           /\ engine'.patterns[key].totalScore =
                before + (IF state.stability > 500 THEN 1 ELSE 0)
           /\ \A k \in DOMAIN engine'.patterns :
                /\ 0 <= engine'.patterns[k].totalScore
                /\ engine'.patterns[k].totalScore <= engine'.patterns[k].count]_vars

\* a stable burn snapshot set the labels; a burn snapshot of stability exactly
\* 0.5 and an unstable one chose other labels and left them
C14_Witness ==
  /\ Len(engine.history) = 3
  /\ engine.history[1].state.stability > 500
  /\ engine.history[1].actions =
       [heating |-> "Adaptive", fueling |-> "Feedback", magnetic |-> "Optimized"]
  /\ engine.history[2].state.stability < 300
  /\ engine.history[2].actions.magnetic = "AI"
  /\ engine.history[3].state.stability = 500
  /\ engine.history[3].state.phase = "burn"
  /\ engine.history[2].state.temperature >= 50000
  /\ engine.currentBest = engine.history[1].actions

\* the representative values of a snapshot or of a pattern
Representative(state) ==
  [ temperature |-> state.temperature, density |-> state.density,
    stability |-> state.stability, fusionPower |-> state.fusionPower ]

\* the decide calls whose snapshot mapped to the bucket
SeenInBucket(key) == {i \in 1..Len(v5Trace) : BucketOf(v5Trace[i].input) = key}

\* C15 as claimed: a pattern's representative values are the last-seen values of
\* its bucket, those of the most recent snapshot that mapped to it.
C15_RepresentativeIsLastSeen ==
  \A key \in DOMAIN engine.patterns :
    LET last == CHOOSE i \in SeenInBucket(key) : \A j \in SeenInBucket(key) : j <= i
    IN  Representative(engine.patterns[key]) = Representative(v5Trace[last].input)

\* C15 amended: a pattern's representative values are the first-seen values of
\* its bucket, those of the snapshot that created the pattern; later snapshots
\* of the bucket change the count and the score only.
C15_RepresentativeIsFirstSeen ==
  \A key \in DOMAIN engine.patterns :
    LET first == CHOOSE i \in SeenInBucket(key) : \A j \in SeenInBucket(key) : i <= j
    IN  Representative(engine.patterns[key]) = Representative(v5Trace[first].input)

\* two snapshots of one bucket with different values, the pattern has the first's
C15_Witness ==
  /\ Len(v5Trace) = 2
  /\ BucketOf(v5Trace[1].input) = BucketOf(v5Trace[2].input)
  /\ Representative(v5Trace[1].input) # Representative(v5Trace[2].input)
  /\ engine.patterns[BucketOf(v5Trace[1].input)].count = 2
  /\ engine.patterns[BucketOf(v5Trace[1].input)].temperature
       = v5Trace[1].input.temperature

\* C17: whatever snapshots decide is called with, the current-best labels stay
\* within {PID, Adaptive} for heating, {Feedback, Pulsed} for fueling and
\* {Adaptive, Optimized} for magnetic: ML-PID, Predictive and AI can be chosen
\* for a tick and never become a current-best label.
C17_BestLabelsStayInRange ==
  /\ engine.currentBest.heating \in {"PID", "Adaptive"}
  /\ engine.currentBest.fueling \in {"Feedback", "Pulsed"}
  /\ engine.currentBest.magnetic \in {"Adaptive", "Optimized"}

\* the labels were moved to PID, Pulsed, Optimized, and then an unstable
\* snapshot got ML-PID, Predictive and AI
C17_Witness ==
  /\ Len(engine.history) = 3
  /\ engine.history[3].actions =
       [heating |-> "ML-PID", fueling |-> "Predictive", magnetic |-> "AI"]
  /\ engine.currentBest =
       [heating |-> "PID", fueling |-> "Pulsed", magnetic |-> "Optimized"]

====
